---------------------------- MODULE Spec2Model ----------------------------
(***************************************************************************)
(* Model of pkg/controller/podautoscaler/predictive_utils.go: the window   *)
(* of CPU utilization observations kept in the autoscaler's annotations,   *)
(* the pod initialization time average, and the line of best fit.          *)
(*                                                                         *)
(* Time is counted in whole seconds.  A float64 is modelled by an exact    *)
(* fraction [num, den]: every float the program computes here comes from   *)
(* integers (Unix seconds, integer CPU percentages, whole durations) far   *)
(* below 2^53, where sums and products of float64 are exact; den = 0       *)
(* stands for the non-finite values (Inf, NaN) a division by zero gives.   *)
(***************************************************************************)
EXTENDS Integers, Sequences, FiniteSets, TLC

VARIABLES
    now,                    \* the wall clock read by time.Now()
    unmarshalKeepsT,        \* whether a failed Time.UnmarshalJSON leaves t as it was
    cpuCurrentUtilization,  \* argument of updateUtilizationObservations
    previousObservations,   \* argument of updateUtilizationObservations
    podInitTime,            \* argument of updateUtilizationObservations
    updatedObservations,    \* first result of updateUtilizationObservations
    err,                    \* second result of updateUtilizationObservations
    pc,                     \* position of the caller
    ticks,                  \* number of sync periods elapsed
    pods,                   \* the caller's []api.Pod
    podsBefore,             \* pods as they were when initTimeForPods was last called
    initTime,               \* first result of initTimeForPods
    initErr,                \* second result of initTimeForPods
    calls,                  \* number of initTimeForPods calls made
    allSeconds,             \* argument of lineOfBestFit
    allCPUUtilizations,     \* argument of lineOfBestFit
    fit                     \* results of lineOfBestFit

vars == <<now, unmarshalKeepsT, cpuCurrentUtilization, previousObservations,
          podInitTime, updatedObservations, err, pc, ticks, pods, podsBefore,
          initTime, initErr, calls, allSeconds, allCPUUtilizations, fit>>

windowVars == <<now, unmarshalKeepsT, cpuCurrentUtilization, previousObservations,
                podInitTime, updatedObservations, err, ticks>>
podVars == <<pods, podsBefore, initTime, initErr, calls>>
fitVars == <<allSeconds, allCPUUtilizations, fit>>

-----------------------------------------------------------------------------
(* Bounds of the model.                                                    *)

MaxLen == 3          \* longest previous window drawn in Init
MaxTicks == 24       \* sync periods followed by the feedback loop
MaxPods == 2         \* longest pod list drawn in InitPods
MaxCalls == 2        \* initTimeForPods calls followed
MaxFitLen == 3       \* longest sequences drawn for lineOfBestFit

-----------------------------------------------------------------------------
(* float64 arithmetic on exact fractions.                                  *)

Abs(x) == IF x < 0 THEN -x ELSE x

RECURSIVE GCD(_, _)
GCD(a, b) == IF b = 0 THEN a ELSE GCD(b, a % b)

NaN == [num |-> 0, den |-> 0]

Normalize(n, d) ==
    IF d = 0 THEN [num |-> IF n > 0 THEN 1 ELSE IF n < 0 THEN -1 ELSE 0, den |-> 0]
    ELSE LET g == GCD(Abs(n), Abs(d))
             s == IF d < 0 THEN -1 ELSE 1
         IN  [num |-> s * (n \div g), den |-> s * (d \div g)]

ToFloat(i) == [num |-> i, den |-> 1]

Finite(a) == a.den # 0

FAdd(a, b) ==
    IF ~Finite(a) \/ ~Finite(b) THEN NaN
    ELSE Normalize(a.num * b.den + b.num * a.den, a.den * b.den)

FSub(a, b) ==
    IF ~Finite(a) \/ ~Finite(b) THEN NaN
    ELSE Normalize(a.num * b.den - b.num * a.den, a.den * b.den)

FMul(a, b) ==
    IF ~Finite(a) \/ ~Finite(b) THEN NaN
    ELSE Normalize(a.num * b.num, a.den * b.den)

\* x / 0 is +Inf, -Inf or NaN in float64, never a panic
FDiv(a, b) ==
    IF ~Finite(a) \/ ~Finite(b) THEN NaN
    ELSE Normalize(a.num * b.den, a.den * b.num)

FLess(a, b) == Finite(a) /\ Finite(b) /\ a.num * b.den < b.num * a.den

FIsZero(a) == Finite(a) /\ a.num = 0

FMin(a, b) == IF FLess(b, a) THEN b ELSE a

FMax(a, b) == IF FLess(a, b) THEN b ELSE a

-----------------------------------------------------------------------------
(* The observation window.                                                 *)
(*                                                                         *)
(* An observation is a map[string]int.  Its key is the JSON text of a      *)
(* time: [valid |-> TRUE, sec |-> s] is the text Time.MarshalJSON writes   *)
(* for second s, [valid |-> FALSE] is a text Time.UnmarshalJSON rejects.   *)
(* A map is the sequence of its entries; the program writes maps of one    *)
(* entry, and the empty map can come back from storage.                    *)

k == 20

ZeroTime == -1000000     \* time.Time{}: year 1, older than every horizon

BadKey == [valid |-> FALSE, sec |-> 0]

MarshalJSON(t) == [valid |-> TRUE, sec |-> t]

\* t.UnmarshalJSON(key), its error dropped: the value t holds afterwards
UnmarshalJSON(t, key, keepsT) ==
    IF key.valid THEN key.sec
    ELSE IF keepsT THEN t ELSE ZeroTime

Since(t, clock) == clock - t

\* the horizon without its cap of 10 minutes
maxDistanceUncapped(initTimeArg) == FMul(initTimeArg, ToFloat(k))

\* the horizon with math.Max for math.Min
maxDistanceMax(initTimeArg) == FMax(FMul(initTimeArg, ToFloat(k)), ToFloat(60 * 10))

maxDistance(initTimeArg) == FMin(FMul(initTimeArg, ToFloat(k)), ToFloat(60 * 10))

\* the age test with <= for <
withinRangeLeq(t, maxD, clock) == ~FLess(maxD, ToFloat(Since(t, clock)))

withinRange(t, maxD, clock) == FLess(ToFloat(Since(t, clock)), maxD)

\* the inner loop over one map's keys: <<t afterwards, whether a key was in range>>
RECURSIVE scanKeys(_, _, _, _, _, _)
scanKeys(timeMap, j, t, maxD, clock, keepsT) ==
    IF j > Len(timeMap) THEN <<t, FALSE>>
    ELSE LET t1 == UnmarshalJSON(t, timeMap[j].key, keepsT)
             rest == scanKeys(timeMap, j + 1, t1, maxD, clock, keepsT)
         IN  <<rest[1], withinRange(t1, maxD, clock) \/ rest[2]>>

\* the outer loop from (0-based) index i: firstToKeep, -1 when nothing is in range
RECURSIVE scanObservations(_, _, _, _, _, _)
scanObservations(prev, i, t, maxD, clock, keepsT) ==
    IF i >= Len(prev) THEN -1
    ELSE LET r == scanKeys(prev[i + 1], 1, t, maxD, clock, keepsT)
         IN  IF r[2] THEN i
             ELSE scanObservations(prev, i + 1, r[1], maxD, clock, keepsT)

removeOldUtils(prev, initTimeArg, clock, keepsT) ==
    LET firstToKeep == scanObservations(prev, 0, ZeroTime, maxDistance(initTimeArg),
                                        clock, keepsT)
    IN  IF firstToKeep = -1 THEN <<>>
        ELSE SubSeq(prev, firstToKeep + 1, Len(prev))

\* the new observation put first
updateUtilizationObservationsPrepend(cpu, prev, initTimeArg, clock, keepsT) ==
    LET observation == << [key |-> MarshalJSON(clock), val |-> cpu] >>
    IN  [obs |-> <<observation>> \o removeOldUtils(prev, initTimeArg, clock, keepsT),
         err |-> "nil"]

\* time.Now() is inside the year range MarshalJSON accepts, so line 62 never returns
updateUtilizationObservations(cpu, prev, initTimeArg, clock, keepsT) ==
    LET observation == << [key |-> MarshalJSON(clock), val |-> cpu] >>
    IN  [obs |-> Append(removeOldUtils(prev, initTimeArg, clock, keepsT), observation),
         err |-> "nil"]

-----------------------------------------------------------------------------
(* The line of best fit.                                                   *)
(*                                                                         *)
(* The stats functions are those of github.com/montanaflynn/stats; a       *)
(* []float64 is a sequence of integers, a *float64 is <<>> (nil) or <<v>>. *)

\* the observation's time as float64(t.Unix()); t is a fresh time.Time{} for each key
RECURSIVE getSecondsAndCPULists(_, _)
getSecondsAndCPULists(previousUtils, keepsT) ==
    IF previousUtils = <<>> THEN [seconds |-> <<>>, cpu |-> <<>>]
    ELSE LET obs == Head(previousUtils)
             rest == getSecondsAndCPULists(Tail(previousUtils), keepsT)
         IN  [seconds |-> [j \in 1..Len(obs) |-> UnmarshalJSON(ZeroTime, obs[j].key, keepsT)]
                          \o rest.seconds,
              cpu |-> [j \in 1..Len(obs) |-> obs[j].val] \o rest.cpu]

RECURSIVE Sum(_)
Sum(input) == IF input = <<>> THEN 0 ELSE Head(input) + Sum(Tail(input))

Mean(input) ==
    IF Len(input) = 0 THEN [val |-> NaN, err |-> "EmptyInput"]
    ELSE [val |-> FDiv(ToFloat(Sum(input)), ToFloat(Len(input))), err |-> "nil"]

RECURSIVE SumOfProducts(_, _, _, _)
SumOfProducts(data1, m1, data2, m2) ==
    IF data1 = <<>> THEN ToFloat(0)
    ELSE FAdd(FMul(FSub(ToFloat(Head(data1)), m1), FSub(ToFloat(Head(data2)), m2)),
              SumOfProducts(Tail(data1), m1, Tail(data2), m2))

PopulationVariance(input) ==
    IF Len(input) = 0 THEN [val |-> NaN, err |-> "EmptyInput"]
    ELSE LET m == Mean(input).val
         IN  [val |-> FDiv(SumOfProducts(input, m, input, m), ToFloat(Len(input))),
              err |-> "nil"]

\* the sample covariance: the sum is divided by n - 1
CovarianceSample(data1, data2) ==
    IF Len(data1) = 0 \/ Len(data2) = 0 THEN [val |-> NaN, err |-> "EmptyInput"]
    ELSE IF Len(data1) # Len(data2) THEN [val |-> NaN, err |-> "SizeErr"]
    ELSE [val |-> FDiv(SumOfProducts(data1, Mean(data1).val, data2, Mean(data2).val),
                       ToFloat(Len(data1) - 1)),
          err |-> "nil"]

CovariancePopulation(data1, data2) ==
    IF Len(data1) = 0 \/ Len(data2) = 0 THEN [val |-> NaN, err |-> "EmptyInput"]
    ELSE IF Len(data1) # Len(data2) THEN [val |-> NaN, err |-> "SizeErr"]
    ELSE [val |-> FDiv(SumOfProducts(data1, Mean(data1).val, data2, Mean(data2).val),
                       ToFloat(Len(data1))),
          err |-> "nil"]

FitError(e) == [yIntercept |-> <<>>, slope |-> <<>>, err |-> e]

\* lineOfBestFit without the test of the variance
lineOfBestFitUnchecked(seconds, cpu) ==
    LET covariance == CovariancePopulation(seconds, cpu)
        secondsVariance == PopulationVariance(seconds)
        meanSeconds == Mean(seconds)
        meanCPUUtilization == Mean(cpu)
        slope == FDiv(covariance.val, secondsVariance.val)
        yIntercept == FSub(meanCPUUtilization.val, FMul(slope, meanSeconds.val))
    IN  IF covariance.err # "nil" THEN FitError(covariance.err)
        ELSE IF secondsVariance.err # "nil" THEN FitError(secondsVariance.err)
        ELSE IF meanSeconds.err # "nil" THEN FitError(meanSeconds.err)
        ELSE IF meanCPUUtilization.err # "nil" THEN FitError(meanCPUUtilization.err)
        ELSE [yIntercept |-> <<yIntercept>>, slope |-> <<slope>>, err |-> "nil"]

lineOfBestFit(seconds, cpu) ==
    LET covariance == CovariancePopulation(seconds, cpu)
        secondsVariance == PopulationVariance(seconds)
        meanSeconds == Mean(seconds)
        meanCPUUtilization == Mean(cpu)
        slope == FDiv(covariance.val, secondsVariance.val)
        yIntercept == FSub(meanCPUUtilization.val, FMul(slope, meanSeconds.val))
    IN  IF covariance.err # "nil" THEN FitError(covariance.err)
        ELSE IF secondsVariance.err # "nil" THEN FitError(secondsVariance.err)
        ELSE IF FIsZero(secondsVariance.val) THEN FitError("ZeroVariance")
        ELSE IF meanSeconds.err # "nil" THEN FitError(meanSeconds.err)
        ELSE IF meanCPUUtilization.err # "nil" THEN FitError(meanCPUUtilization.err)
        ELSE [yIntercept |-> <<yIntercept>>, slope |-> <<slope>>, err |-> "nil"]

predictFutureCPUFromBestFit(pit, currentTime, yIntercept, slope) ==
    LET futurePredictionTime == FAdd(currentTime, pit)
    IN  FAdd(yIntercept, FMul(slope, futurePredictionTime))

-----------------------------------------------------------------------------
(* The pod initialization time.                                            *)
(*                                                                         *)
(* A pod is [creationTimestamp, conditions, annotations].  Annotations is  *)
(* a Go map, a reference: [nil |-> TRUE] is the nil map, otherwise found   *)
(* says whether the key InitializationTime is in it and value is the text  *)
(* stored there.  The text of a duration is modelled by its fields: "1m30s"*)
(* is [ok |-> TRUE, neg |-> FALSE, h |-> 0, m |-> 1, s |-> 30].            *)

PodReady == "Ready"
PodScheduled == "PodScheduled"

BadDuration == [ok |-> FALSE, neg |-> FALSE, h |-> 0, m |-> 0, s |-> 0]

\* Duration.String()
DurationString(d) ==
    LET a == Abs(d)
    IN  [ok |-> TRUE, neg |-> d < 0, h |-> a \div 3600, m |-> (a % 3600) \div 60,
         s |-> a % 60]

\* time.ParseDuration
ParseDuration(text) ==
    IF ~text.ok THEN [val |-> 0, err |-> "InvalidDuration"]
    ELSE [val |-> (IF text.neg THEN -1 ELSE 1) * (text.h * 3600 + text.m * 60 + text.s),
          err |-> "nil"]

NilMap == [nil |-> TRUE, found |-> FALSE, value |-> BadDuration]
EmptyMap == [nil |-> FALSE, found |-> FALSE, value |-> BadDuration]

\* the pod behind the pointer after the write
writeToPodAnnotations(pod, value) ==
    [pod EXCEPT !.annotations = [nil |-> FALSE, found |-> TRUE, value |-> value]]

\* <<the first condition of type PodReady>>, or <<>>
RECURSIVE readyCondition(_)
readyCondition(conditions) ==
    IF conditions = <<>> THEN <<>>
    ELSE IF Head(conditions).type = PodReady THEN <<Head(conditions)>>
    ELSE readyCondition(Tail(conditions))

\* pod is the function's own copy of the caller's pod; it is returned as the call leaves it
initTimeForPod(pod) ==
    LET ready == readyCondition(pod.conditions)
    IN  IF ready = <<>> THEN [val |-> ToFloat(0), err |-> "Pod is not ready.", pod |-> pod]
        ELSE LET cond == ready[1]
                 found == ~pod.annotations.nil /\ pod.annotations.found
                 initTimeText ==
                     IF found THEN pod.annotations.value
                     ELSE DurationString(cond.lastTransitionTime - pod.creationTimestamp)
                 written == IF found THEN pod ELSE writeToPodAnnotations(pod, initTimeText)
                 initDuration == ParseDuration(initTimeText)
             IN  IF initDuration.err # "nil"
                 THEN [val |-> ToFloat(0), err |-> initDuration.err, pod |-> written]
                 ELSE [val |-> ToFloat(initDuration.val), err |-> "nil", pod |-> written]

\* What the caller's pod is after initTimeForPod worked on a copy of it: the copy
\* shares the caller's map when there is one, and a map made for a nil one is the copy's.
callerPod(pod, copy) ==
    IF pod.annotations.nil THEN pod ELSE [pod EXCEPT !.annotations = copy.annotations]

\* the loop from (1-based) index i
RECURSIVE initTimeForPodsFrom(_, _, _, _)
initTimeForPodsFrom(podList, i, totalInitializationTime, readyPods) ==
    IF i > Len(podList)
    THEN [val |-> IF readyPods = 0 THEN ToFloat(0)
                  ELSE FDiv(totalInitializationTime, ToFloat(readyPods)),
          err |-> "nil", pods |-> podList]
    ELSE LET r == initTimeForPod(podList[i])
             seen == [podList EXCEPT ![i] = callerPod(podList[i], r.pod)]
         IN  IF r.err # "nil" THEN [val |-> ToFloat(0), err |-> r.err, pods |-> seen]
             ELSE initTimeForPodsFrom(seen, i + 1, FAdd(totalInitializationTime, r.val),
                                      readyPods + 1)

initTimeForPods(podList) == initTimeForPodsFrom(podList, 1, ToFloat(0), 0)

-----------------------------------------------------------------------------
(* Inputs of the window operations.                                        *)

Now0 == 1000             \* the clock when the model starts
SyncPeriod == 30         \* seconds between two syncs of the autoscaler

\* timestamps around the clock: ages 700, 600, 100, 50, 0 and 30 seconds ahead
Timestamps == {Now0 - 700, Now0 - 600, Now0 - 100, Now0 - 50, Now0, Now0 + 30}

Keys == {MarshalJSON(t) : t \in Timestamps} \cup {BadKey}

PreviousUtilizations == {10, 50}

CurrentUtilizations == {70}

\* pod initialization times 0, 2.5, 5, 30 and 40 seconds: horizons 0, 50, 100, 600
\* and 800 capped to 600
InitTimes == {ToFloat(0), [num |-> 5, den |-> 2], ToFloat(5), ToFloat(30), ToFloat(40)}

Observations ==
    {<<>>} \cup {<< [key |-> key, val |-> v] >> : key \in Keys, v \in PreviousUtilizations}

RECURSIVE Windows(_)
Windows(n) ==
    IF n = 0 THEN {<<>>}
    ELSE LET shorter == Windows(n - 1)
         IN  shorter \cup {Append(w, o) : w \in {x \in shorter : Len(x) = n - 1},
                                          o \in Observations}

NoPods == <<>>
NoFit == [yIntercept |-> NaN, slope |-> NaN, err |-> "none"]

PodsIdle ==
    /\ pods = NoPods
    /\ podsBefore = NoPods
    /\ initTime = ToFloat(0)
    /\ initErr = "nil"
    /\ calls = 0

FitIdle ==
    /\ allSeconds = <<>>
    /\ allCPUUtilizations = <<>>
    /\ fit = NoFit

-----------------------------------------------------------------------------
(* One call of updateUtilizationObservations on a stored window.           *)

Init ==
    /\ now = Now0
    /\ unmarshalKeepsT \in BOOLEAN
    /\ cpuCurrentUtilization \in CurrentUtilizations
    /\ previousObservations \in Windows(MaxLen)
    /\ podInitTime \in InitTimes
    /\ updatedObservations = <<>>
    /\ err = "nil"
    /\ pc = "call"
    /\ ticks = 0
    /\ PodsIdle
    /\ FitIdle

UpdateUtilizationObservations ==
    /\ pc = "call"
    /\ LET r == updateUtilizationObservations(cpuCurrentUtilization, previousObservations,
                                              podInitTime, now, unmarshalKeepsT)
       IN  /\ updatedObservations' = r.obs
           /\ err' = r.err
    /\ pc' = "done"
    /\ UNCHANGED <<now, unmarshalKeepsT, cpuCurrentUtilization, previousObservations,
                   podInitTime, ticks>>
    /\ UNCHANGED podVars
    /\ UNCHANGED fitVars

Next == UpdateUtilizationObservations

Spec == Init /\ [][Next]_vars

-----------------------------------------------------------------------------
(* The autoscaler's loop: every sync period the window it stored last is   *)
(* read back and updated with the current utilization.                     *)

InitSync ==
    /\ now = Now0
    /\ unmarshalKeepsT \in BOOLEAN
    /\ cpuCurrentUtilization \in CurrentUtilizations
    /\ previousObservations = <<>>
    /\ podInitTime \in InitTimes
    /\ updatedObservations = <<>>
    /\ err = "nil"
    /\ pc = "sync"
    /\ ticks = 0
    /\ PodsIdle
    /\ FitIdle

Sync ==
    /\ pc = "sync"
    /\ ticks < MaxTicks
    /\ ticks' = ticks + 1
    /\ now' = now + SyncPeriod
    /\ cpuCurrentUtilization' \in CurrentUtilizations
    /\ podInitTime' \in InitTimes
    /\ previousObservations' = updatedObservations
    /\ LET r == updateUtilizationObservations(cpuCurrentUtilization', updatedObservations,
                                              podInitTime', now', unmarshalKeepsT)
       IN  /\ updatedObservations' = r.obs
           /\ err' = r.err
    /\ UNCHANGED <<unmarshalKeepsT, pc>>
    /\ UNCHANGED podVars
    /\ UNCHANGED fitVars

NextSync == Sync

SpecSync == InitSync /\ [][NextSync]_vars

-----------------------------------------------------------------------------
(* One call of lineOfBestFit on two lists.                                 *)

SecondsValues == {0, 3, 5}
CPUValues == {17, 20, 42}

\* the lists of TestLineOfBestFit
TestSeconds == <<3, 5, 3, 7, 5, 8, 7, 4, 6, 2>>
TestCPUUtilizations == <<21, 26, 20, 32, 23, 42, 35, 24, 30, 17>>

RECURSIVE Lists(_, _)
Lists(values, n) ==
    IF n = 0 THEN {<<>>}
    ELSE LET shorter == Lists(values, n - 1)
         IN  shorter \cup {Append(w, v) : w \in {x \in shorter : Len(x) = n - 1},
                                          v \in values}

WindowIdle ==
    /\ now = Now0
    /\ unmarshalKeepsT = FALSE
    /\ cpuCurrentUtilization = 0
    /\ previousObservations = <<>>
    /\ podInitTime = ToFloat(0)
    /\ updatedObservations = <<>>
    /\ err = "nil"
    /\ ticks = 0

InitFit ==
    /\ \/ /\ allSeconds \in Lists(SecondsValues, MaxFitLen)
          /\ allCPUUtilizations \in Lists(CPUValues, MaxFitLen)
       \/ /\ allSeconds = TestSeconds
          /\ allCPUUtilizations = TestCPUUtilizations
    /\ fit = NoFit
    /\ pc = "fit"
    /\ WindowIdle
    /\ PodsIdle

LineOfBestFit ==
    /\ pc = "fit"
    /\ fit' = lineOfBestFit(allSeconds, allCPUUtilizations)
    /\ pc' = "fitted"
    /\ UNCHANGED <<allSeconds, allCPUUtilizations>>
    /\ UNCHANGED windowVars
    /\ UNCHANGED podVars

NextFit == LineOfBestFit

SpecFit == InitFit /\ [][NextFit]_vars

-----------------------------------------------------------------------------
(* Calls of initTimeForPods on the caller's pods, whose ready conditions   *)
(* the kubelet updates in between.                                         *)

TransitionTimes == {60, 120}

Ready(t) == [type |-> PodReady, lastTransitionTime |-> t]
Scheduled == [type |-> PodScheduled, lastTransitionTime |-> 10]

ConditionLists ==
    {<<>>, <<Scheduled>>} \cup {<<Ready(t)>> : t \in TransitionTimes}
                          \cup {<<Scheduled, Ready(t)>> : t \in TransitionTimes}

AnnotationMaps ==
    {NilMap, EmptyMap,
     [nil |-> FALSE, found |-> TRUE, value |-> DurationString(90)],
     [nil |-> FALSE, found |-> TRUE, value |-> BadDuration]}

Pods ==
    [creationTimestamp : {0}, conditions : ConditionLists,
     annotations : AnnotationMaps]

InitPods ==
    /\ pods \in Lists(Pods, MaxPods)
    /\ podsBefore = NoPods
    /\ initTime = ToFloat(0)
    /\ initErr = "nil"
    /\ calls = 0
    /\ pc = "pods"
    /\ WindowIdle
    /\ FitIdle

InitTimeForPods ==
    /\ pc = "pods"
    /\ calls < MaxCalls
    /\ LET r == initTimeForPods(pods)
       IN  /\ pods' = r.pods
           /\ initTime' = r.val
           /\ initErr' = r.err
    /\ podsBefore' = pods
    /\ calls' = calls + 1
    /\ UNCHANGED pc
    /\ UNCHANGED windowVars
    /\ UNCHANGED fitVars

\* the pod's ready condition is set, or set again, at time t
setReady(conditions, t) ==
    IF readyCondition(conditions) = <<>> THEN Append(conditions, Ready(t))
    ELSE [j \in 1..Len(conditions) |->
             IF conditions[j].type = PodReady THEN Ready(t) ELSE conditions[j]]

ReadyConditionChanges ==
    /\ pc = "pods"
    /\ calls > 0
    /\ calls < MaxCalls
    /\ \E i \in 1..Len(pods), t \in TransitionTimes :
          /\ setReady(pods[i].conditions, t) # pods[i].conditions
          /\ pods' = [pods EXCEPT ![i].conditions = setReady(pods[i].conditions, t)]
    /\ UNCHANGED <<podsBefore, initTime, initErr, calls, pc>>
    /\ UNCHANGED windowVars
    /\ UNCHANGED fitVars

NextPods == InitTimeForPods \/ ReadyConditionChanges

SpecPods == InitPods /\ [][NextPods]_vars

-----------------------------------------------------------------------------
(* Properties of the observation window.                                   *)

WellFormed(o) == Len(o) = 1 /\ o[1].key.valid

Timestamp(o) == o[1].key.sec

Chronological(w) ==
    /\ \A i \in 1..Len(w) : WellFormed(w[i])
    /\ \A i, j \in 1..Len(w) : i < j => Timestamp(w[i]) <= Timestamp(w[j])

\* min(bootLatencySeconds * 20, 600), as a fraction
RetentionHorizon(b) ==
    IF b.num * 20 < 600 * b.den THEN [num |-> b.num * 20, den |-> b.den]
    ELSE [num |-> 600, den |-> 1]

AgeBelow(o, h) == (now - Timestamp(o)) * h.den < h.num

AgeIs(o, h) == (now - Timestamp(o)) * h.den = h.num

NewObservation == << [key |-> [valid |-> TRUE, sec |-> now], val |-> cpuCurrentUtilization] >>

Survivors == Len(updatedObservations) - 1

Dropped == Len(previousObservations) - Survivors

\* C1: on a chronological previous window and a boot latency >= 0, every previous
\* sample that remains is younger than min(bootLatency * 20, 600) seconds and every
\* sample that was dropped has at least that age (an age equal to it is dropped).
C1_EvictionBoundary ==
    (pc = "done" /\ Chronological(previousObservations) /\ podInitTime.num >= 0) =>
        /\ Dropped \in 0..Len(previousObservations)
        /\ \A i \in 1..Len(previousObservations) :
              IF i > Dropped
              THEN /\ updatedObservations[i - Dropped] = previousObservations[i]
                   /\ AgeBelow(previousObservations[i], RetentionHorizon(podInitTime))
              ELSE ~AgeBelow(previousObservations[i], RetentionHorizon(podInitTime))

\* a chronological window whose first sample is exactly as old as the horizon and was
\* dropped while a later one remains
C1_Witness ==
    /\ pc = "done"
    /\ Chronological(previousObservations)
    /\ Len(previousObservations) >= 2
    /\ AgeIs(previousObservations[1], RetentionHorizon(podInitTime))
    /\ Dropped = 1
    /\ Survivors >= 1

HasMalformedKey(w) == \E i \in 1..Len(w) : \E j \in 1..Len(w[i]) : ~w[i][j].key.valid

\* C3: when a sample of the previous window has a timestamp that fails to parse, the
\* call returns an error and the previous window unmodified.
C3_MalformedTimestampIsError ==
    (pc = "done" /\ HasMalformedKey(previousObservations)) =>
        /\ err # "nil"
        /\ updatedObservations = previousObservations

\* C4: no observation is written whose timestamp is that of a sample already in the
\* retained window.
C4_NoReplica ==
    pc = "done" =>
        \A i \in 1..Survivors : \A j \in 1..Len(updatedObservations[i]) :
            updatedObservations[i][j].key # NewObservation[1].key

\* C9: fed its own result every 30 seconds from an empty window, the window never
\* holds more than 20 observations and stays in chronological order.
C9_AtMostTwentyObservations ==
    pc = "sync" =>
        /\ Len(updatedObservations) <= 20
        /\ Chronological(updatedObservations)

\* a full window was read back, one sample left it and one joined it
C9_Witness ==
    /\ pc = "sync"
    /\ Len(previousObservations) = 20
    /\ Len(updatedObservations) = 20

\* C10: with a boot latency of 0 (what initTimeForPods gives for no pods) every
\* previous sample is evicted, the window holds the new sample alone, and
\* lineOfBestFit on it fails on the zero variance.
C10_ZeroBootLatencyKeepsOneSample ==
    (pc = "sync" /\ ticks > 0 /\ FIsZero(podInitTime)) =>
        /\ initTimeForPods(NoPods).val = ToFloat(0)
        /\ initTimeForPods(NoPods).err = "nil"
        /\ updatedObservations = <<NewObservation>>
        /\ LET lists == getSecondsAndCPULists(updatedObservations, unmarshalKeepsT)
           IN  lineOfBestFit(lists.seconds, lists.cpu) = FitError("ZeroVariance")

\* a sync with boot latency 0 that read back a window of several samples
C10_Witness ==
    /\ pc = "sync"
    /\ ticks > 0
    /\ FIsZero(podInitTime)
    /\ Len(previousObservations) >= 2
    /\ Len(updatedObservations) = 1

-----------------------------------------------------------------------------
(* Properties of the pod initialization time.                              *)

HasReady(p) == \E j \in 1..Len(p.conditions) : p.conditions[j].type = PodReady

HasCache(p) == ~p.annotations.nil /\ p.annotations.found

FirstReady(p) ==
    p.conditions[CHOOSE j \in 1..Len(p.conditions) :
                    /\ p.conditions[j].type = PodReady
                    /\ \A l \in 1..(j - 1) : p.conditions[l].type # PodReady]

\* ready transition time minus creation time
BootLatency(p) == FirstReady(p).lastTransitionTime - p.creationTimestamp

\* seconds of the text "XhYmZs"
SecondsOf(text) == (IF text.neg THEN -1 ELSE 1) * (text.h * 3600 + text.m * 60 + text.s)

RecordedLatency(p) ==
    IF HasCache(p) THEN SecondsOf(p.annotations.value) ELSE BootLatency(p)

RECURSIVE ReadyLatencySum(_)
ReadyLatencySum(podList) ==
    IF podList = <<>> THEN 0
    ELSE (IF HasReady(Head(podList)) THEN RecordedLatency(Head(podList)) ELSE 0)
         + ReadyLatencySum(Tail(podList))

ReadyCount(podList) == Cardinality({i \in 1..Len(podList) : HasReady(podList[i])})

CachesParse(podList) ==
    \A i \in 1..Len(podList) : HasCache(podList[i]) => podList[i].annotations.value.ok

\* C5: initTimeForPods returns, without error, the mean of the boot latencies of the
\* pods that have a ready condition, skipping the others, and 0.0 when none is ready.
C5_MeanOverReadyPods ==
    (pc = "pods" /\ calls > 0 /\ CachesParse(podsBefore)) =>
        /\ initErr = "nil"
        /\ IF ReadyCount(podsBefore) = 0 THEN initTime = ToFloat(0)
           ELSE /\ Finite(initTime)
                /\ initTime.num * ReadyCount(podsBefore)
                      = ReadyLatencySum(podsBefore) * initTime.den

\* C6: after a call on a ready pod without the annotation (its map nil or not) the
\* caller's pod carries the computed value, and an annotation that was there is kept.
C6_WriteOnceCache ==
    (pc = "pods" /\ calls > 0 /\ initErr = "nil") =>
        \A i \in 1..Len(pods) :
            HasReady(podsBefore[i]) =>
                /\ HasCache(pods[i])
                /\ pods[i].annotations.value =
                      IF HasCache(podsBefore[i]) THEN podsBefore[i].annotations.value
                      ELSE DurationString(BootLatency(podsBefore[i]))

-----------------------------------------------------------------------------
(* Properties of the line of best fit.                                     *)

RECURSIVE DotProduct(_, _)
DotProduct(a, b) ==
    IF a = <<>> THEN 0 ELSE Head(a) * Head(b) + DotProduct(Tail(a), Tail(b))

SameLengthNonEmpty == Len(allSeconds) = Len(allCPUUtilizations) /\ Len(allSeconds) > 0

AllSecondsEqual == \A i, j \in 1..Len(allSeconds) : allSeconds[i] = allSeconds[j]

\* C7: on non-empty lists of equal length lineOfBestFit fails, returning no intercept
\* and no slope, exactly when all time values are equal, and its results are finite
\* (no division by zero) when it succeeds.
C7_FailsExactlyOnZeroVariance ==
    (pc = "fitted" /\ SameLengthNonEmpty) =>
        /\ fit.err # "nil" <=> AllSecondsEqual
        /\ fit.err # "nil" => fit.yIntercept = <<>> /\ fit.slope = <<>>
        /\ fit.err = "nil" =>
              /\ Len(fit.slope) = 1 /\ Finite(fit.slope[1])
              /\ Len(fit.yIntercept) = 1 /\ Finite(fit.yIntercept[1])

\* several samples sharing one timestamp were refused
C7_Witness ==
    /\ pc = "fitted"
    /\ Len(allSeconds) >= 2
    /\ SameLengthNonEmpty
    /\ AllSecondsEqual
    /\ fit.err = "ZeroVariance"

\* C8: when lineOfBestFit succeeds the slope is the least-squares slope
\* (n Sxy - Sx Sy) / (n Sxx - Sx Sx), the intercept is mean(cpu) - slope * mean(seconds),
\* and on the lists of TestLineOfBestFit they are within 1 of 3.7 and of 8.5.
C8_LeastSquaresLine ==
    (pc = "fitted" /\ fit.err = "nil") =>
        LET n == Len(allSeconds)
            sx == Sum(allSeconds)
            sy == Sum(allCPUUtilizations)
            sxx == DotProduct(allSeconds, allSeconds)
            sxy == DotProduct(allSeconds, allCPUUtilizations)
            b == fit.slope[1]
            a == fit.yIntercept[1]
        IN  /\ Finite(a) /\ Finite(b)
            /\ b.num * (n * sxx - sx * sx) = b.den * (n * sxy - sx * sy)
            /\ a.num * b.den * n = a.den * (b.den * sy - b.num * sx)
            /\ (allSeconds = TestSeconds /\ allCPUUtilizations = TestCPUUtilizations) =>
                  /\ FLess([num |-> 27, den |-> 10], b) /\ FLess(b, [num |-> 47, den |-> 10])
                  /\ FLess([num |-> 75, den |-> 10], a) /\ FLess(a, [num |-> 95, den |-> 10])

\* the lists of TestLineOfBestFit were fitted
C8_Witness ==
    /\ pc = "fitted"
    /\ fit.err = "nil"
    /\ allSeconds = TestSeconds
    /\ allCPUUtilizations = TestCPUUtilizations

=============================================================================
